---- MODULE Spec2Model ----
(***************************************************************************)
(* A model of the text pipeline of projeto_nlp: the normalizer             *)
(* (limpar_texto), the paragraph segmenter, the chunk builder              *)
(* (criar_chunks), the relevance selector (selecionar_chunks_relevantes),  *)
(* the lazy spaCy loader (carregar_spacy) and the orchestrator             *)
(* (processar_texto).                                                      *)
(*                                                                         *)
(* A text is a sequence of characters.  A character is one of the tokens   *)
(* of Chars: "a" and "b" are letters, "SP" is U+0020, "LF" is U+000A,      *)
(* "TAB" is U+0009, "CR" is U+000D, "NUL" is U+0000 (a control character   *)
(* that is not whitespace) and "VT" is U+000B (a control character that    *)
(* Python also counts as whitespace).                                      *)
(***************************************************************************)
EXTENDS Integers, Sequences, FiniteSets, TLC

VARIABLES
    \* limpar_texto (normalizer)
    raw, limpo, limpo2, pcN,
    \* criar_chunks
    texto, usar_spacy, spacy_carregado, sentencas, tamanho_chunk, overlap,
    pos, chunks, chunk_atual, sentencas_no_chunk, indice_chunk, pcC,
    \* history of criar_chunks: where the segments of the buffer come from
    \* (their positions in sentencas, how many of them are the retained
    \* overlap tail, how many were appended because they fit), and the same
    \* for every chunk of the list
    origem, origens,
    \* selecionar_chunks_relevantes: heap holds the chunk dictionaries, a list
    \* of chunks is a list of heap addresses
    heap, chunks_in, embeddings_chunks, embedding_global, percentual_selecao,
    resultado, pcS,
    \* carregar_spacy: the module globals, whether the model pt_core_news_sm
    \* is installed, the calls of spacy.load so far, the public function that
    \* ran last, the calls of carregar_spacy so far and what the last returned
    SPACY_DISPONIVEL, nlp_spacy, modelo_instalado, load_attempts, ultima_funcao,
    chamadas, retorno,
    \* main and processar_texto: the length of the stripped input, whether the
    \* openai package is there, the result dictionary, the stages run so far
    \* and the external calls that failed; the chunks, the embeddings and the
    \* selected chunks are the variables of selecionar_chunks_relevantes
    pcP, tamanho_entrada, OPENAI_DISPONIVEL, resultado_proc, eventos, falhas,
    \* the prompt gerar_texto_o4_mini builds: whether it was built and the
    \* chunk texts put into it
    prompt,
    \* truncar_texto_para_embedding: its arguments and what it returns
    texto_emb, max_tokens, texto_truncado, pcT,
    \* calcular_similaridade_coseno: its arguments and what it returns
    embedding1, embedding2, similaridade, pcK,
    \* segmentar_em_frases_spacy: its argument and what it returns
    texto_frases, frases, pcF

normVars == <<raw, limpo, limpo2, pcN>>
chunkVars == <<texto, usar_spacy, spacy_carregado, sentencas, tamanho_chunk,
               overlap, pos, chunks, chunk_atual, sentencas_no_chunk,
               indice_chunk, pcC, origem, origens>>
selVars == <<heap, chunks_in, embeddings_chunks, embedding_global,
             percentual_selecao, resultado, pcS>>
spacyVars == <<SPACY_DISPONIVEL, nlp_spacy, modelo_instalado, load_attempts,
               ultima_funcao, chamadas, retorno>>
procVars == <<pcP, tamanho_entrada, OPENAI_DISPONIVEL, resultado_proc, eventos,
              falhas, prompt>>
truncVars == <<texto_emb, max_tokens, texto_truncado, pcT>>
cosVars == <<embedding1, embedding2, similaridade, pcK>>
frasesVars == <<texto_frases, frases, pcF>>
vars == <<normVars, chunkVars, selVars, spacyVars, procVars, truncVars, cosVars, frasesVars>>

\* what the steps of one component leave alone
notNorm == <<chunkVars, selVars, spacyVars, procVars, truncVars, cosVars, frasesVars>>
notChunk == <<normVars, selVars, spacyVars, procVars, truncVars, cosVars, frasesVars>>
notSel == <<normVars, chunkVars, spacyVars, procVars, truncVars, cosVars, frasesVars>>
notSpacy == <<normVars, chunkVars, selVars, procVars, truncVars, cosVars, frasesVars>>
notProc == <<normVars, chunkVars, spacyVars, truncVars, cosVars, frasesVars>>
notTrunc == <<normVars, chunkVars, selVars, spacyVars, procVars, cosVars, frasesVars>>
notCos == <<normVars, chunkVars, selVars, spacyVars, procVars, truncVars,
           frasesVars>>
notFrases == <<normVars, chunkVars, selVars, procVars, truncVars, cosVars>>

----------------------------------------------------------------------------
(* Bounds of the model *)

\* longest raw text given to limpar_texto
MaxLen == 5
\* longest segment, most segments, largest target size and overlap
MaxSegLen == 2
MaxSegs == 4
MaxTam == 4
MaxOverlap == 3
\* most chunks given to selecionar_chunks_relevantes
MaxChunks == 4
\* most calls of carregar_spacy in one process
MaxCalls == 7
\* most chunks of one run of processar_texto
MaxProcChunks == 3
\* largest max_tokens and longest text given to truncar_texto_para_embedding
MaxTokens == 2
MaxTruncLen == 9
\* largest dimension of the vectors given to calcular_similaridade_coseno
MaxDim == 2
\* longest text given to segmentar_em_frases_spacy
MaxFraseLen == 5

----------------------------------------------------------------------------
(* Strings *)

Chars == {"a", "SP", "LF", "TAB", "CR", "NUL", "VT"}

SeqsUpTo(S, n) == UNION {[1..k -> S] : k \in 0..n}

\* Python's str.isspace / the regex class \s
IsSpace(c) == c \in {"SP", "LF", "TAB", "CR", "VT"}

IsCtlNulOnly(c) == c = "NUL"

\* the class [\x00-\x08\x0B-\x0C\x0E-\x1F\x7F]
IsCtl(c) == c \in {"NUL", "VT"}

RECURSIVE LStrip(_)
LStrip(s) ==
    IF s = <<>> THEN <<>>
    ELSE IF IsSpace(Head(s)) THEN LStrip(Tail(s)) ELSE s

RECURSIVE RStrip(_)
RStrip(s) ==
    IF s = <<>> THEN <<>>
    ELSE IF IsSpace(s[Len(s)]) THEN RStrip(SubSeq(s, 1, Len(s) - 1)) ELSE s

\* str.strip()
Strip(s) == RStrip(LStrip(s))

\* str.split('\n'): the lines of s, at least one
RECURSIVE SplitLines(_)
SplitLines(s) ==
    IF \A i \in 1..Len(s) : s[i] # "LF" THEN <<s>>
    ELSE LET k == CHOOSE i \in 1..Len(s) :
                      s[i] = "LF" /\ \A j \in 1..(i - 1) : s[j] # "LF"
         IN <<SubSeq(s, 1, k - 1)>> \o SplitLines(SubSeq(s, k + 1, Len(s)))

\* sep.join(parts)
RECURSIVE Join(_, _)
Join(sep, parts) ==
    IF parts = <<>> THEN <<>>
    ELSE IF Len(parts) = 1 THEN parts[1]
    ELSE parts[1] \o sep \o Join(sep, Tail(parts))

\* length of the longest prefix of s made of whitespace
RECURSIVE SpaceRun(_)
SpaceRun(s) ==
    IF s = <<>> \/ ~IsSpace(Head(s)) THEN 0 ELSE 1 + SpaceRun(Tail(s))

\* the last position of "LF" among the first n characters of s, 0 if none
LastLF(s, n) ==
    LET P == {i \in 1..n : s[i] = "LF"}
    IN IF P = {} THEN 0 ELSE CHOOSE i \in P : \A j \in P : j <= i

\* re.sub(r'\n\s*\n', '\n\n', s): leftmost matches, \s* greedy
RECURSIVE SubBlankLines(_)
SubBlankLines(s) ==
    IF s = <<>> THEN <<>>
    ELSE IF Head(s) = "LF" /\ LastLF(Tail(s), SpaceRun(Tail(s))) > 0
         THEN <<"LF", "LF">> \o
              SubBlankLines(SubSeq(s, LastLF(Tail(s), SpaceRun(Tail(s))) + 2, Len(s)))
         ELSE <<Head(s)>> \o SubBlankLines(Tail(s))

\* re.sub(r' +', ' ', s)
RECURSIVE SubSpaces(_)
SubSpaces(s) ==
    IF s = <<>> THEN <<>>
    ELSE IF Head(s) = "SP" /\ Len(s) > 1 /\ s[2] = "SP" THEN SubSpaces(Tail(s))
    ELSE <<Head(s)>> \o SubSpaces(Tail(s))

\* '\n'.join(linha.strip() for linha in s.split('\n'))
StripLines(s) ==
    LET ls == SplitLines(s)
    IN Join(<<"LF">>, [i \in 1..Len(ls) |-> Strip(ls[i])])

\* re.sub(r'[\x00-\x08\x0B-\x0C\x0E-\x1F\x7F]', '', s)
RemoveCtl(s) == SelectSeq(s, LAMBDA c : ~IsCtl(c))

limpar_texto(s) == Strip(RemoveCtl(StripLines(SubSpaces(SubBlankLines(s)))))

\* the pieces of re.split(r'\n\s*\n', s)
RECURSIVE SplitBlankLines(_, _)
SplitBlankLines(s, acc) ==
    IF s = <<>> THEN <<acc>>
    ELSE IF Head(s) = "LF" /\ LastLF(Tail(s), SpaceRun(Tail(s))) > 0
         THEN <<acc>> \o
              SplitBlankLines(SubSeq(s, LastLF(Tail(s), SpaceRun(Tail(s))) + 2, Len(s)),
                              <<>>)
         ELSE SplitBlankLines(Tail(s), Append(acc, Head(s)))

segmentar_em_paragrafos(s) ==
    LET ps == SplitBlankLines(s, <<>>)
        stripped == [i \in 1..Len(ps) |-> Strip(ps[i])]
    IN SelectSeq(stripped, LAMBDA p : p # <<>>)

\* len(s.split()): the number of maximal runs of non-whitespace characters
contar_palavras(s) ==
    Cardinality({i \in 1..Len(s) :
                    ~IsSpace(s[i]) /\ (i = 1 \/ IsSpace(s[i - 1]))})

----------------------------------------------------------------------------
(* criar_chunks: the loop state is the record                               *)
(* [chunks, chunk_atual, sentencas_no_chunk, indice_chunk]                  *)

\* the sentence spans spaCy may report for a text: any division of the text
\* into consecutive pieces, each stripped, the empty ones dropped
Pieces(s, cuts) ==
    LET n == Cardinality(cuts)
        cutAt(k) == IF k = 0 THEN 0
                    ELSE IF k = n + 1 THEN Len(s)
                    ELSE CHOOSE c \in cuts : Cardinality({d \in cuts : d < c}) = k - 1
    IN [k \in 1..(n + 1) |-> SubSeq(s, cutAt(k - 1) + 1, cutAt(k))]

segmentar_em_frases_spacy_loaded(s) ==
    {LET ps == Pieces(s, cuts)
         stripped == [i \in 1..Len(ps) |-> Strip(ps[i])]
     IN SelectSeq(stripped, LAMBDA p : p # <<>>) : cuts \in SUBSET (1..(Len(s) - 1))}

\* the segment sequences criar_chunks may work on
Segmentos(s, usar, carregado) ==
    IF usar /\ carregado THEN segmentar_em_frases_spacy_loaded(s)
    ELSE {segmentar_em_paragrafos(s)}

LoopInit == [chunks |-> <<>>, chunk_atual |-> <<>>,
             sentencas_no_chunk |-> <<>>, indice_chunk |-> 0]

MkChunk(c) ==
    [indice |-> c.indice_chunk,
     texto |-> Strip(c.chunk_atual),
     tamanho |-> Len(Strip(c.chunk_atual)),
     num_palavras |-> contar_palavras(Strip(c.chunk_atual)),
     num_sentencas |-> Len(c.sentencas_no_chunk)]

FitsFolgado(c, sentenca, tam) ==
    Len(c.chunk_atual) + Len(sentenca) <= tam + 1

FitsSemSeparador(c, sentenca, tam) ==
    Len(Strip(c.chunk_atual)) + Len(sentenca) <= tam

\* if len(chunk_atual) + len(sentenca) <= tamanho_chunk
Fits(c, sentenca, tam) == Len(c.chunk_atual) + Len(sentenca) <= tam

AppendSegSubstitui(c, sentenca) ==
    [c EXCEPT !.chunk_atual = sentenca \o <<"SP">>,
              !.sentencas_no_chunk = <<sentenca>>]

\* chunk_atual += sentenca + " "; sentencas_no_chunk.append(sentenca)
AppendSeg(c, sentenca) ==
    [c EXCEPT !.chunk_atual = @ \o sentenca \o <<"SP">>,
              !.sentencas_no_chunk = Append(@, sentenca)]

EmitIfNonEmptyIncAlways(c) ==
    IF Strip(c.chunk_atual) # <<>>
    THEN [c EXCEPT !.chunks = Append(@, MkChunk(c)), !.indice_chunk = @ + 1]
    ELSE [c EXCEPT !.indice_chunk = @ + 1]

\* if chunk_atual.strip(): chunks.append({...}); indice_chunk += 1
EmitIfNonEmpty(c) ==
    IF Strip(c.chunk_atual) # <<>>
    THEN [c EXCEPT !.chunks = Append(@, MkChunk(c)), !.indice_chunk = @ + 1]
    ELSE c

\* for sent in reversed(sentencas_no_chunk): keep while it fits, else break
RECURSIVE OverlapLoop(_, _, _, _)
OverlapLoop(rest, overlap_sentencas, overlap_chars, ov) ==
    IF rest = <<>> THEN overlap_sentencas
    ELSE LET sent == rest[Len(rest)]
         IN IF overlap_chars + Len(sent) <= ov
            THEN OverlapLoop(SubSeq(rest, 1, Len(rest) - 1),
                             <<sent>> \o overlap_sentencas,
                             overlap_chars + Len(sent), ov)
            ELSE overlap_sentencas

OverlapTailSkipping(sents, ov) ==
    LET RECURSIVE Go(_, _, _)
        Go(rest, kept, chars) ==
            IF rest = <<>> THEN kept
            ELSE LET sent == rest[Len(rest)]
                 IN IF chars + Len(sent) <= ov
                    THEN Go(SubSeq(rest, 1, Len(rest) - 1), <<sent>> \o kept,
                            chars + Len(sent))
                    ELSE Go(SubSeq(rest, 1, Len(rest) - 1), kept, chars)
    IN Go(sents, <<>>, 0)

\* overlap_sentencas = []; overlap_chars = 0; the loop over the reversed list
OverlapTail(sents, ov) == OverlapLoop(sents, <<>>, 0, ov)

NewBufferNoSeparator(c, sentenca, ov) ==
    IF ov > 0 /\ c.sentencas_no_chunk # <<>>
    THEN LET overlap_sentencas == OverlapTail(c.sentencas_no_chunk, ov)
         IN [c EXCEPT
               !.chunk_atual = Join(<<"SP">>, overlap_sentencas)
                               \o sentenca \o <<"SP">>,
               !.sentencas_no_chunk = overlap_sentencas \o <<sentenca>>]
    ELSE [c EXCEPT !.chunk_atual = sentenca \o <<"SP">>,
                   !.sentencas_no_chunk = <<sentenca>>]

NewBufferSemSegmento(c, sentenca, ov) ==
    IF ov > 0 /\ c.sentencas_no_chunk # <<>>
    THEN LET overlap_sentencas == OverlapTail(c.sentencas_no_chunk, ov)
         IN [c EXCEPT
               !.chunk_atual = Join(<<"SP">>, overlap_sentencas) \o <<"SP">>,
               !.sentencas_no_chunk = overlap_sentencas]
    ELSE [c EXCEPT !.chunk_atual = sentenca \o <<"SP">>,
                   !.sentencas_no_chunk = <<sentenca>>]

\* the new buffer: the overlap tail, if any, and the overflowing segment
NewBuffer(c, sentenca, ov) ==
    IF ov > 0 /\ c.sentencas_no_chunk # <<>>
    THEN LET overlap_sentencas == OverlapTail(c.sentencas_no_chunk, ov)
         IN [c EXCEPT
               !.chunk_atual = Join(<<"SP">>, overlap_sentencas) \o <<"SP">>
                               \o sentenca \o <<"SP">>,
               !.sentencas_no_chunk = overlap_sentencas \o <<sentenca>>]
    ELSE [c EXCEPT !.chunk_atual = sentenca \o <<"SP">>,
                   !.sentencas_no_chunk = <<sentenca>>]

Overflow(c, sentenca, ov) == NewBuffer(EmitIfNonEmpty(c), sentenca, ov)

ChunkStep(c, sentenca, tam, ov) ==
    IF Fits(c, sentenca, tam) THEN AppendSeg(c, sentenca)
    ELSE Overflow(c, sentenca, ov)

FinalChunksNoFlush(c) == c.chunks

\* the last chunk, if the buffer holds one
FinalChunks(c) == EmitIfNonEmpty(c).chunks

RECURSIVE ChunkLoop(_, _, _, _)
ChunkLoop(c, sents, tam, ov) ==
    IF sents = <<>> THEN c
    ELSE ChunkLoop(ChunkStep(c, Head(sents), tam, ov), Tail(sents), tam, ov)

\* criar_chunks once the segment sequence is chosen
criar_chunks_de(sents, tam, ov) == FinalChunks(ChunkLoop(LoopInit, sents, tam, ov))

----------------------------------------------------------------------------
(* limpar_texto applied once and twice *)

RawTexts == SeqsUpTo(Chars, MaxLen)

\* texts of MaxLen + 1 characters that begin and end with a letter, so that
\* no character between the letters is trimmed away as an edge
FramedTexts == {<<"a">> \o m \o <<"a">> : m \in [1..(MaxLen - 1) -> Chars]}

NormIdle == raw = <<>> /\ limpo = <<>> /\ limpo2 = <<>> /\ pcN = "idle"

OrigemVazia == [posicoes |-> <<>>, cauda |-> 0, anexadas |-> 0]

ChunkIdle ==
    /\ texto = <<>> /\ usar_spacy = FALSE /\ spacy_carregado = FALSE
    /\ sentencas = <<>> /\ tamanho_chunk = 1 /\ overlap = 0 /\ pos = 1
    /\ chunks = <<>> /\ chunk_atual = <<>> /\ sentencas_no_chunk = <<>>
    /\ indice_chunk = 0 /\ pcC = "idle"
    /\ origem = OrigemVazia /\ origens = <<>>

SelIdle ==
    /\ heap = <<>> /\ chunks_in = <<>> /\ embeddings_chunks = <<>>
    /\ embedding_global = <<>> /\ percentual_selecao = 10
    /\ resultado = <<>> /\ pcS = "idle"

SpacyIdle ==
    /\ SPACY_DISPONIVEL = FALSE /\ nlp_spacy = "None" /\ modelo_instalado = FALSE
    /\ load_attempts = 0 /\ ultima_funcao = "none" /\ chamadas = 0
    /\ retorno = "None"

\* no prompt was built
SemPrompt == [construido |-> FALSE, partes |-> <<>>]

\* resultado as processar_texto first builds it
ResultadoInicial ==
    [sucesso |-> FALSE, texto_gerado |-> "", estatisticas_entrada |-> "vazio",
     estatisticas_saida |-> "vazio", chunks |-> <<>>,
     chunks_selecionados |-> <<>>, embeddings_info |-> "vazio", erro |-> "None"]

ProcIdle ==
    /\ pcP = "idle" /\ tamanho_entrada = 0 /\ OPENAI_DISPONIVEL = FALSE
    /\ resultado_proc = ResultadoInicial /\ eventos = <<>> /\ falhas = {}
    /\ prompt = SemPrompt

TruncIdle ==
    texto_emb = <<>> /\ max_tokens = 1 /\ texto_truncado = <<>> /\ pcT = "idle"

CosIdle ==
    /\ embedding1 = <<>> /\ embedding2 = <<>>
    /\ similaridade = [num |-> 0, den2 |-> 1] /\ pcK = "idle"

FrasesIdle == texto_frases = <<>> /\ frases = <<>> /\ pcF = "idle"

InitNorm ==
    /\ raw \in RawTexts \cup FramedTexts
    /\ limpo = <<>> /\ limpo2 = <<>> /\ pcN = "raw"
    /\ ChunkIdle /\ SelIdle /\ SpacyIdle /\ ProcIdle /\ TruncIdle /\ CosIdle /\ FrasesIdle

Limpar ==
    /\ pcN = "raw"
    /\ limpo' = limpar_texto(raw)
    /\ pcN' = "limpo"
    /\ UNCHANGED <<raw, limpo2, notNorm>>

LimparDeNovo ==
    /\ pcN = "limpo"
    /\ limpo2' = limpar_texto(limpo)
    /\ pcN' = "limpo2"
    /\ UNCHANGED <<raw, limpo, notNorm>>

NextNorm == Limpar \/ LimparDeNovo

SpecNorm == InitNorm /\ [][NextNorm]_vars

\* C8: limpar_texto is idempotent: applied to its own result, control
\* characters, tabs and carriage returns included, it returns that result
C8_Idempotent == pcN = "limpo2" => limpo2 = limpo

\* the characters of U+0000..U+001F and U+007F among Chars
ControlChars == {"LF", "TAB", "CR", "NUL", "VT"}

Has(s, S) == \E i \in 1..Len(s) : s[i] \in S

\* C15 as stated: the result of limpar_texto holds no control character
\* other than newline and tab, so no carriage return
C15_Original ==
    pcN \in {"limpo", "limpo2"} => ~Has(limpo, ControlChars \ {"LF", "TAB"})

\* C15, amended: the result of limpar_texto holds no control character
\* other than newline, tab and carriage return
C15_NoControlChars ==
    /\ pcN \in {"limpo", "limpo2"}
          => ~Has(limpo, ControlChars \ {"LF", "TAB", "CR"})
    /\ pcN = "limpo2" => ~Has(limpo2, ControlChars \ {"LF", "TAB", "CR"})

\* a text with the two kinds of removed control characters and a carriage
\* return inside a line, cleaned: the carriage return is still there
C15_Witness ==
    /\ pcN = "limpo" /\ Has(raw, {"NUL"}) /\ Has(raw, {"VT"})
    /\ Has(limpo, {"CR"}) /\ Len(limpo) = 3

\* C16: the result of limpar_texto holds no run of three or more newlines,
\* also when control characters stood between the blank lines of the input
C16_NoTripleNewline ==
    pcN \in {"limpo", "limpo2"} =>
        ~\E i \in 1..(Len(limpo) - 2) :
            limpo[i] = "LF" /\ limpo[i + 1] = "LF" /\ limpo[i + 2] = "LF"

\* C17: the result of limpar_texto holds no two consecutive characters that
\* are spaces or tabs
C17_NoHorizontalRuns ==
    pcN \in {"limpo", "limpo2"} =>
        ~\E i \in 1..(Len(limpo) - 1) :
            limpo[i] \in {"SP", "TAB"} /\ limpo[i + 1] \in {"SP", "TAB"}

----------------------------------------------------------------------------
(* criar_chunks, one loop iteration per step *)

Letters == {"a", "b"}

\* a segment: one letter repeated 1..MaxSegLen times
SegPool == {[i \in 1..n |-> l] : n \in 1..MaxSegLen, l \in Letters}

\* texts of up to MaxSegs paragraphs
ParagraphTexts == {Join(<<"LF", "LF">>, ss) : ss \in SeqsUpTo(SegPool, MaxSegs)}

\* the normalized texts criar_chunks is given
NormTexts == {limpar_texto(r) : r \in RawTexts \cup ParagraphTexts}

Cur == [chunks |-> chunks, chunk_atual |-> chunk_atual,
        sentencas_no_chunk |-> sentencas_no_chunk, indice_chunk |-> indice_chunk]

SetLoop(c) ==
    /\ chunks' = c.chunks
    /\ chunk_atual' = c.chunk_atual
    /\ sentencas_no_chunk' = c.sentencas_no_chunk
    /\ indice_chunk' = c.indice_chunk

\* chunks.append({...}): the chunk just put on the list is the buffer
OrigensApos(cs) ==
    IF Len(cs) > Len(chunks) THEN Append(origens, origem) ELSE origens

InitChunk ==
    /\ texto \in NormTexts
    \* spaCy's spans are enumerated for the texts of up to MaxLen characters;
    \* a longer text is segmented into paragraphs (usar_spacy = False)
    /\ usar_spacy \in (IF Len(texto) <= MaxLen THEN BOOLEAN ELSE {FALSE})
    /\ spacy_carregado \in (IF Len(texto) <= MaxLen THEN BOOLEAN ELSE {FALSE})
    /\ tamanho_chunk \in 1..MaxTam
    /\ overlap \in 0..MaxOverlap
    /\ sentencas = <<>> /\ pos = 1
    /\ chunks = <<>> /\ chunk_atual = <<>> /\ sentencas_no_chunk = <<>>
    /\ indice_chunk = 0
    /\ origem = OrigemVazia /\ origens = <<>>
    /\ pcC = "segmentar"
    /\ NormIdle /\ SelIdle /\ SpacyIdle /\ ProcIdle /\ TruncIdle /\ CosIdle /\ FrasesIdle

Segmentar ==
    /\ pcC = "segmentar"
    /\ sentencas' \in Segmentos(texto, usar_spacy, spacy_carregado)
    /\ SetLoop(LoopInit)
    /\ origem' = OrigemVazia /\ origens' = <<>>
    /\ pos' = 1
    /\ pcC' = "loop"
    /\ UNCHANGED <<texto, usar_spacy, spacy_carregado, tamanho_chunk, overlap,
                   notChunk>>

LoopAppend ==
    /\ pcC = "loop" /\ pos <= Len(sentencas)
    /\ Fits(Cur, sentencas[pos], tamanho_chunk)
    /\ SetLoop(ChunkStep(Cur, sentencas[pos], tamanho_chunk, overlap))
    /\ origem' = [origem EXCEPT !.posicoes = Append(@, pos), !.anexadas = @ + 1]
    /\ origens' = origens
    /\ pos' = pos + 1
    /\ UNCHANGED <<texto, usar_spacy, spacy_carregado, sentencas, tamanho_chunk,
                   overlap, pcC, notChunk>>

LoopOverflow ==
    /\ pcC = "loop" /\ pos <= Len(sentencas)
    /\ ~Fits(Cur, sentencas[pos], tamanho_chunk)
    /\ SetLoop(ChunkStep(Cur, sentencas[pos], tamanho_chunk, overlap))
    /\ origens' = OrigensApos(chunks')
    /\ origem' = LET k == Len(sentencas_no_chunk') - 1
                      n == Len(origem.posicoes)
                  IN [posicoes |-> SubSeq(origem.posicoes, n - k + 1, n) \o <<pos>>,
                      cauda |-> k, anexadas |-> 0]
    /\ pos' = pos + 1
    /\ UNCHANGED <<texto, usar_spacy, spacy_carregado, sentencas, tamanho_chunk,
                   overlap, pcC, notChunk>>

LoopEnd ==
    /\ pcC = "loop" /\ pos > Len(sentencas)
    /\ chunks' = FinalChunks(Cur)
    /\ origens' = OrigensApos(chunks')
    /\ pcC' = "done"
    /\ UNCHANGED <<texto, usar_spacy, spacy_carregado, sentencas, tamanho_chunk,
                   overlap, pos, chunk_atual, sentencas_no_chunk, indice_chunk,
                   origem, notChunk>>

NextChunk == Segmentar \/ LoopAppend \/ LoopOverflow \/ LoopEnd

SpecChunk == InitChunk /\ [][NextChunk]_vars

\* C1: the chunks built so far, and the list criar_chunks returns, carry the
\* indices 0, 1, 2, ... in list order
C1_IndicesContiguous ==
    \A i \in 1..Len(chunks) : chunks[i].indice = i - 1

\* criar_chunks has returned three chunks or more after a first segment longer
\* than the target size overflowed an empty buffer
C1_Witness ==
    /\ pcC = "done" /\ Len(chunks) >= 3
    /\ Len(sentencas[1]) > tamanho_chunk

\* summed length of the segments of a list
RECURSIVE SumLen(_)
SumLen(ss) == IF ss = <<>> THEN 0 ELSE Len(Head(ss)) + SumLen(Tail(ss))

Suffix(ss, k) == SubSeq(ss, Len(ss) - k + 1, Len(ss))

\* C13: at every overflow with overlap > 0 the segments of the new buffer
\* are the longest suffix of the buffer's segment list whose summed length
\* does not exceed overlap, followed by the overflowing segment; all the
\* segments are kept when overlap is at least their summed length
C13_OverlapTail ==
    [][(/\ pcC = "loop" /\ pos' = pos + 1 /\ overlap > 0
        /\ ~Fits(Cur, sentencas[pos], tamanho_chunk))
       => \E k \in 0..Len(sentencas_no_chunk) :
             /\ sentencas_no_chunk'
                   = Suffix(sentencas_no_chunk, k) \o <<sentencas[pos]>>
             /\ SumLen(Suffix(sentencas_no_chunk, k)) <= overlap
             /\ k < Len(sentencas_no_chunk)
                   => SumLen(Suffix(sentencas_no_chunk, k + 1)) > overlap
             /\ SumLen(sentencas_no_chunk) <= overlap
                   => k = Len(sentencas_no_chunk)]_vars

\* right after an overflow (the buffer is longer than an append can leave
\* it) that kept a tail of the chunk just emitted and dropped its head
C13_Witness ==
    /\ pcC = "loop" /\ overlap > 0 /\ chunks # <<>>
    /\ Len(chunk_atual) > tamanho_chunk + 1
    /\ Len(sentencas_no_chunk) >= 2
    /\ chunks[Len(chunks)].num_sentencas > Len(sentencas_no_chunk) - 1

\* chunk c is made of the segments i..j of the segment sequence
IsRun(c, i, j) ==
    /\ i <= j
    /\ chunks[c].texto = Join(<<"SP">>, SubSeq(sentencas, i, j))
    /\ chunks[c].num_sentencas = j - i + 1

\* C14: the texto of every chunk is the single-space join of a consecutive
\* run of whole segments, and a segment longer than tamanho_chunk is found
\* whole in a returned chunk that is longer than tamanho_chunk
C14_NeverSplits ==
    /\ \A c \in 1..Len(chunks) :
          \E i, j \in 1..Len(sentencas) : IsRun(c, i, j)
    /\ pcC = "done" =>
          \A p \in 1..Len(sentencas) :
              Len(sentencas[p]) > tamanho_chunk =>
                  \E c \in 1..Len(chunks) :
                      /\ chunks[c].tamanho > tamanho_chunk
                      /\ \E i \in 1..p, j \in p..Len(sentencas) : IsRun(c, i, j)

\* criar_chunks has returned a chunk of two segments or more and a chunk
\* that holds a segment longer than the target size
C14_Witness ==
    /\ pcC = "done"
    /\ \E c \in 1..Len(chunks) : chunks[c].num_sentencas >= 2
    /\ \E p \in 1..Len(sentencas) : Len(sentencas[p]) > tamanho_chunk

\* C2: criar_chunks of a non-empty normalized text returns at least one chunk
\* and no chunk with an empty texto
C2_NonEmptyChunks ==
    (pcC = "done" /\ texto # <<>>) =>
        /\ chunks # <<>>
        /\ \A i \in 1..Len(chunks) : chunks[i].texto # <<>>

\* criar_chunks has returned two chunks or more for a non-empty text
C2_Witness == pcC = "done" /\ texto # <<>> /\ Len(chunks) >= 2

\* the space " ".join([]) + " " puts before the overflowing segment
LeadingSpace == IF chunk_atual # <<>> /\ chunk_atual[1] = "SP" THEN 1 ELSE 0

\* the segments of chunk k, by position in sentencas
SegmentosDe(o) == [i \in 1..Len(o.posicoes) |-> sentencas[o.posicoes[i]]]

\* the history variables describe the buffer and the chunks
HistoriaFiel ==
    /\ SegmentosDe(origem) = sentencas_no_chunk
    /\ Len(origens) = Len(chunks)
    /\ \A k \in 1..Len(chunks) :
          chunks[k].texto = Join(<<"SP">>, SegmentosDe(origens[k]))

\* places a < b of chunk k whose segments have lengths that sum to
\* tamanho_chunk exactly
ParesExatos(o) ==
    {ab \in (1..Len(o.posicoes)) \X (1..Len(o.posicoes)) :
        /\ ab[1] < ab[2]
        /\ Len(sentencas[o.posicoes[ab[1]]]) + Len(sentencas[o.posicoes[ab[2]]])
              = tamanho_chunk}

PassoDoLaco ==
    (pcC = "loop" /\ pos' = pos + 1) =>
        IF Len(chunk_atual) + Len(sentencas[pos]) <= tamanho_chunk
        THEN /\ chunk_atual' = chunk_atual \o sentencas[pos] \o <<"SP">>
             /\ sentencas_no_chunk' = Append(sentencas_no_chunk, sentencas[pos])
             /\ chunks' = chunks
        ELSE /\ IF sentencas_no_chunk # <<>>
                THEN /\ Len(chunks') = Len(chunks) + 1
                     /\ chunks'[Len(chunks')].texto
                           = Join(<<"SP">>, sentencas_no_chunk)
                     /\ SubSeq(chunks', 1, Len(chunks)) = chunks
                ELSE chunks' = chunks
             /\ sentencas_no_chunk'[Len(sentencas_no_chunk')] = sentencas[pos]
             /\ Len(sentencas_no_chunk') <= Len(sentencas_no_chunk) + 1

ChunksCom(p) ==
    {k \in 1..Len(origens) :
        \E i \in 1..Len(origens[k].posicoes) : origens[k].posicoes[i] = p}

NoBuffer(p) == \E i \in 1..Len(origem.posicoes) : origem.posicoes[i] = p

EmOrdem(o) ==
    \A i \in 1..(Len(o.posicoes) - 1) : o.posicoes[i + 1] = o.posicoes[i] + 1

\* C23: every segment the loop has taken is in a chunk of the list or in the
\* buffer, and in a chunk of the list criar_chunks returns; the texto of a
\* chunk is its segments in the order of the segment sequence; with overlap
\* = 0 every segment is in exactly one chunk
C23_NoTextLost ==
    /\ HistoriaFiel
    /\ EmOrdem(origem) /\ \A k \in 1..Len(origens) : EmOrdem(origens[k])
    /\ pcC = "loop" => \A p \in 1..(pos - 1) : ChunksCom(p) # {} \/ NoBuffer(p)
    /\ pcC = "done" =>
          /\ \A p \in 1..Len(sentencas) : ChunksCom(p) # {}
          /\ overlap = 0 =>
                \A p \in 1..Len(sentencas) : Cardinality(ChunksCom(p)) = 1

\* a list of three chunks built with overlap = 0, one of them of two segments
C23_Witness ==
    /\ pcC = "done" /\ overlap = 0 /\ Len(chunks) = 3
    /\ \E k \in 1..Len(chunks) : chunks[k].num_sentencas = 2

Ultimo(o) == o.posicoes[Len(o.posicoes)]

\* C24: the last segment of every chunk lies later in the segment sequence
\* than the last segment of the chunk before it, also when overlap >=
\* tamanho_chunk; the chunks are never more than the segments taken, two
\* consecutive chunks are never the same chunk nor hold the same segments,
\* and every step of the loop takes the next segment until none is left
C24_Progress ==
    /\ [](/\ HistoriaFiel
          /\ \A k \in 1..Len(origens) : origens[k].posicoes # <<>>
          /\ \A k \in 1..(Len(origens) - 1) :
                /\ Ultimo(origens[k]) < Ultimo(origens[k + 1])
                /\ origens[k].posicoes # origens[k + 1].posicoes
                /\ chunks[k] # chunks[k + 1]
          /\ pcC = "loop" => Len(chunks) <= pos - 1
          /\ Len(chunks) <= Len(sentencas)
          /\ pcC \in {"loop", "done"} => pos <= Len(sentencas) + 1)
    /\ [][pcC = "loop" => (pos' = pos + 1 \/ pcC' = "done")]_vars

\* a list of chunks built with overlap >= tamanho_chunk, the second chunk
\* holding all the segments of the first and one more
C24_Witness ==
    /\ pcC = "done" /\ overlap >= tamanho_chunk /\ Len(chunks) >= 3
    /\ origens[2].cauda = Len(origens[1].posicoes)

\* C25: a chunk longer than tamanho_chunk is a retained tail, possibly
\* empty, and one more segment, none of its segments appended because it
\* fit; a chunk that received an append is not longer than tamanho_chunk;
\* with overlap = 0 and no segment longer than tamanho_chunk no chunk is
\* longer than tamanho_chunk
C25_SizeBound ==
    /\ HistoriaFiel
    /\ \A k \in 1..Len(chunks) :
          /\ chunks[k].tamanho = Len(chunks[k].texto)
          /\ Len(origens[k].posicoes)
                \in {origens[k].cauda + origens[k].anexadas,
                     origens[k].cauda + 1 + origens[k].anexadas}
          /\ chunks[k].tamanho > tamanho_chunk =>
                /\ origens[k].anexadas = 0
                /\ Len(origens[k].posicoes) = origens[k].cauda + 1
          /\ origens[k].anexadas > 0 => chunks[k].tamanho <= tamanho_chunk
    /\ (overlap = 0 /\ \A p \in 1..Len(sentencas) :
                          Len(sentencas[p]) <= tamanho_chunk) =>
          \A k \in 1..Len(chunks) : chunks[k].tamanho <= tamanho_chunk

\* a list with a chunk longer than tamanho_chunk made of a retained tail and
\* one segment, and a chunk that received an append
C25_Witness ==
    /\ pcC = "done"
    /\ \E k \in 1..Len(chunks) :
          chunks[k].tamanho > tamanho_chunk /\ origens[k].cauda >= 1
    /\ \E k \in 1..Len(chunks) : origens[k].anexadas >= 2

----------------------------------------------------------------------------
(* carregar_spacy and the functions that call it *)

\* One call of carregar_spacy on g = [nlp_spacy, load_attempts, chamadas,
\* retorno]; disp is SPACY_DISPONIVEL, inst tells whether spacy.load finds the
\* model (it raises OSError when it does not).
carregar_spacy(g, disp, inst) ==
    IF g.nlp_spacy # "None"
    THEN [g EXCEPT !.chamadas = @ + 1, !.retorno = g.nlp_spacy]
    ELSE IF ~disp
    THEN [g EXCEPT !.chamadas = @ + 1, !.retorno = "None"]
    ELSE IF inst
    THEN [g EXCEPT !.nlp_spacy = "pt_core_news_sm", !.load_attempts = @ + 1,
                   !.chamadas = @ + 1, !.retorno = "pt_core_news_sm"]
    ELSE [g EXCEPT !.load_attempts = @ + 1, !.chamadas = @ + 1,
                   !.retorno = "None"]

\* extrair_entidades and segmentar_em_frases_spacy: one call each
UmaChamada(g, disp, inst) == carregar_spacy(g, disp, inst)

\* criar_chunks with usar_spacy: one call, and the call of
\* segmentar_em_frases_spacy when the model is there
ChamadasDeCriarChunks(g, disp, inst) ==
    LET g1 == carregar_spacy(g, disp, inst)
    IN IF g1.retorno # "None" THEN carregar_spacy(g1, disp, inst) ELSE g1

\* analisar_com_spacy without chunks: one call, then extrair_entidades and
\* segmentar_em_frases_spacy when the model is there
ChamadasDeAnalisar(g, disp, inst) ==
    LET g1 == carregar_spacy(g, disp, inst)
    IN IF g1.retorno # "None"
       THEN carregar_spacy(carregar_spacy(g1, disp, inst), disp, inst)
       ELSE g1

Globais == [nlp_spacy |-> nlp_spacy, load_attempts |-> load_attempts,
            chamadas |-> chamadas, retorno |-> retorno]

SetGlobais(g) ==
    /\ g.chamadas <= MaxCalls
    /\ nlp_spacy' = g.nlp_spacy
    /\ load_attempts' = g.load_attempts
    /\ chamadas' = g.chamadas
    /\ retorno' = g.retorno
    /\ UNCHANGED <<SPACY_DISPONIVEL, modelo_instalado, notSpacy>>

InitSpacy ==
    /\ SPACY_DISPONIVEL \in BOOLEAN
    /\ modelo_instalado \in BOOLEAN
    /\ nlp_spacy = "None" /\ load_attempts = 0 /\ ultima_funcao = "none"
    /\ chamadas = 0 /\ retorno = "None"
    /\ NormIdle /\ ChunkIdle /\ SelIdle /\ ProcIdle /\ TruncIdle /\ CosIdle /\ FrasesIdle

ExtrairEntidades ==
    /\ ultima_funcao' = "extrair_entidades"
    /\ SetGlobais(UmaChamada(Globais, SPACY_DISPONIVEL, modelo_instalado))

SegmentarEmFrasesSpacy ==
    /\ ultima_funcao' = "segmentar_em_frases_spacy"
    /\ SetGlobais(UmaChamada(Globais, SPACY_DISPONIVEL, modelo_instalado))

CriarChunksComSpacy ==
    /\ ultima_funcao' = "criar_chunks"
    /\ SetGlobais(ChamadasDeCriarChunks(Globais, SPACY_DISPONIVEL, modelo_instalado))

AnalisarComSpacy ==
    /\ ultima_funcao' = "analisar_com_spacy"
    /\ SetGlobais(ChamadasDeAnalisar(Globais, SPACY_DISPONIVEL, modelo_instalado))

NextSpacy ==
    ExtrairEntidades \/ SegmentarEmFrasesSpacy \/ CriarChunksComSpacy
    \/ AnalisarComSpacy

SpecSpacy == InitSpacy /\ [][NextSpacy]_vars

\* C9: in one process spacy.load is called at most once, whatever the calls
\* of carregar_spacy
C9_LoadAtMostOnce == load_attempts <= 1

----------------------------------------------------------------------------
(* selecionar_chunks_relevantes *)

\* An embedding is a vector of integers.  A similarity is kept exact as the
\* record [num, den2] that stands for num / sqrt(den2), den2 > 0.
Dot(u, v) ==
    LET RECURSIVE Sum(_)
        Sum(i) == IF i = 0 THEN 0 ELSE u[i] * v[i] + Sum(i - 1)
    IN Sum(Len(u))

calcular_similaridade_coseno_unguarded(e1, e2) ==
    [num |-> Dot(e1, e2), den2 |-> Dot(e1, e1) * Dot(e2, e2)]

\* den2 = 0 would stand for a division by zero
calcular_similaridade_coseno(e1, e2) ==
    IF Dot(e1, e1) = 0 \/ Dot(e2, e2) = 0
    THEN [num |-> 0, den2 |-> 1]
    ELSE [num |-> Dot(e1, e2), den2 |-> Dot(e1, e1) * Dot(e2, e2)]

\* x |-> sign(x) * x^2 is increasing, so num/sqrt(den2) is compared on it
SignedSq(x) == IF x < 0 THEN 0 - x * x ELSE x * x
SimLT(a, b) == SignedSq(a.num) * b.den2 < SignedSq(b.num) * a.den2
SimEQ(a, b) == SignedSq(a.num) * b.den2 = SignedSq(b.num) * a.den2

Max(a, b) == IF a >= b THEN a ELSE b

Take(seq, n) == SubSeq(seq, 1, IF n <= Len(seq) THEN n ELSE Len(seq))

IsDegenerateChunksOnly(cs, embs) == cs = <<>>

\* if not chunks or not embeddings_chunks
IsDegenerate(cs, embs) == cs = <<>> \/ embs = <<>>

\* the list similaridades
Similaridades(cs, embs, glob) ==
    [i \in 1..Len(embs) |->
        [indice_original |-> i - 1,
         chunk |-> cs[i],
         similaridade |-> calcular_similaridade_coseno(embs[i], glob)]]

\* the sort keys of the two calls of sorted, as "x goes before y"
Before(key, x, y) ==
    CASE key = "similaridade_reverse" -> SimLT(y.similaridade, x.similaridade)
      [] key = "similaridade" -> SimLT(x.similaridade, y.similaridade)
      [] key = "indice_original" -> x.indice_original < y.indice_original

\* the place of x in a sorted list: after the items x does not go before
RECURSIVE InsertSorted(_, _, _)
InsertSorted(sorted, x, key) ==
    IF sorted = <<>> THEN <<x>>
    ELSE IF Before(key, x, Head(sorted)) THEN <<x>> \o sorted
    ELSE <<Head(sorted)>> \o InsertSorted(Tail(sorted), x, key)

\* Python's sorted: stable, the items taken in list order
RECURSIVE StableSort(_, _, _)
StableSort(seq, acc, key) ==
    IF seq = <<>> THEN acc
    ELSE StableSort(Tail(seq), InsertSorted(acc, Head(seq), key), key)

Reverse(seq) == [i \in 1..Len(seq) |-> seq[Len(seq) + 1 - i]]

SortBySimilarityAscending(sims) == StableSort(sims, <<>>, "similaridade")

SortBySimilarityReversed(sims) == Reverse(SortBySimilarityAscending(sims))

\* sorted(similaridades, key=similaridade, reverse=True)
SortBySimilarity(sims) == StableSort(sims, <<>>, "similaridade_reverse")

NoSortByIndex(sel) == sel

\* sorted(chunks_selecionados, key=indice_original)
SortByIndex(sel) == StableSort(sel, <<>>, "indice_original")

\* max(1, int(len(chunks) * percentual_selecao)), the fraction in tenths
num_selecionar(n, tenths) == Max(1, (n * tenths) \div 10)

\* item['chunk'].copy() with 'similaridade' set
ChunkComSim(d, sim) ==
    [k \in DOMAIN d \cup {"similaridade"} |->
        IF k = "similaridade" THEN sim ELSE d[k]]

AttachInPlace(h, sel) ==
    LET RECURSIVE Go(_, _, _)
        Go(hh, res, i) ==
            IF i > Len(sel) THEN [heap |-> hh, resultado |-> res]
            ELSE Go([hh EXCEPT ![sel[i].chunk] =
                        ChunkComSim(hh[sel[i].chunk], sel[i].similaridade)],
                    Append(res, sel[i].chunk), i + 1)
    IN Go(h, <<>>, 1)

\* the loop that builds resultado: every copy is a new dictionary of the heap
AttachCopies(h, sel) ==
    LET RECURSIVE Go(_, _, _)
        Go(hh, res, i) ==
            IF i > Len(sel) THEN [heap |-> hh, resultado |-> res]
            ELSE Go(Append(hh, ChunkComSim(hh[sel[i].chunk], sel[i].similaridade)),
                    Append(res, Len(hh) + 1), i + 1)
    IN Go(h, <<>>, 1)

\* the call: the heap it leaves and the list it returns
selecionar_chunks_relevantes(h, cs, embs, glob, tenths) ==
    IF IsDegenerate(cs, embs) THEN [heap |-> h, resultado |-> cs]
    ELSE AttachCopies(h,
            SortByIndex(Take(SortBySimilarity(Similaridades(cs, embs, glob)),
                             num_selecionar(Len(cs), tenths))))

\* the embeddings of the model: against the global embedding E0, E1..E5 have
\* the similarities 0.9, 0.2, 0.7, 0.5 and 0.95; EZero has norm zero
E0 == <<1, 0, 0, 0, 0>>
E1 == <<18, 6, 6, 2, 0>>
E2 == <<4, 16, 8, 8, 0>>
E3 == <<14, 14, 2, 2, 0>>
E4 == <<10, 10, 10, 10, 0>>
E5 == <<19, 5, 3, 2, 1>>
EZero == <<0, 0, 0, 0, 0>>
EmbPool == {E1, E2, E3, E4, E5, EZero}
\* against EDiff, E2 has a negative similarity and E3 and E4 both have 0
EDiff == <<1, 0 - 1, 0, 0, 0>>
GlobalPool == {E0, EDiff, EZero}

\* the selection fractions 0.4, 0.7 and 1.0, in tenths
Fractions == {4, 7, 10}

\* n chunks as criar_chunks builds them from n one-letter segments
InputChunks(n) ==
    [i \in 1..n |->
        MkChunk([chunks |-> <<>>, chunk_atual |-> <<"a", "SP">>,
                 sentencas_no_chunk |-> << <<"a">> >>, indice_chunk |-> i - 1])]

\* the calls of the model: up to MaxChunks chunks with embeddings of the
\* pool (or none), and the scenario of five chunks with fraction 0.4
InitSel ==
    /\ \/ /\ \E n \in 0..MaxChunks :
                /\ heap = InputChunks(n)
                /\ chunks_in = [i \in 1..n |-> i]
                /\ embeddings_chunks \in [1..n -> EmbPool] \cup {<<>>}
          /\ embedding_global \in GlobalPool
          /\ percentual_selecao \in Fractions
       \/ /\ heap = InputChunks(5)
          /\ chunks_in = [i \in 1..5 |-> i]
          /\ embeddings_chunks = <<E1, E2, E3, E4, E5>>
          /\ embedding_global = E0
          /\ percentual_selecao = 4
    /\ resultado = <<>>
    /\ pcS = "call"
    /\ NormIdle /\ ChunkIdle /\ SpacyIdle /\ ProcIdle /\ TruncIdle /\ CosIdle /\ FrasesIdle

Selecionar ==
    /\ pcS = "call"
    /\ \E r \in {selecionar_chunks_relevantes(heap, chunks_in, embeddings_chunks,
                                              embedding_global, percentual_selecao)} :
          heap' = r.heap /\ resultado' = r.resultado
    /\ pcS' = "returned"
    /\ UNCHANGED <<chunks_in, embeddings_chunks, embedding_global,
                   percentual_selecao, notSel>>

NextSel == Selecionar

SpecSel == InitSel /\ [][NextSel]_vars

\* what the claims about a call read
SelReturned == pcS = "returned"
NumChunks == Len(chunks_in)
Aligned == NumChunks >= 1 /\ Len(embeddings_chunks) = NumChunks
IndexOfResult(r) == heap[resultado[r]].indice
ResultIndices == [r \in 1..Len(resultado) |-> IndexOfResult(r)]
IsLeftOut(i) == \A r \in 1..Len(resultado) : IndexOfResult(r) # i - 1
SimOfInput(i) == calcular_similaridade_coseno(embeddings_chunks[i], embedding_global)
SimOfResult(r) == heap[resultado[r]]["similaridade"]
InputUntouched ==
    /\ chunks_in = [i \in 1..NumChunks |-> i]
    /\ SubSeq(heap, 1, NumChunks) = InputChunks(NumChunks)
ReturnedAreCopies ==
    \A r \in 1..Len(resultado) :
        /\ resultado[r] \notin {chunks_in[i] : i \in 1..NumChunks}
        /\ \A q \in 1..Len(resultado) : q # r => resultado[q] # resultado[r]
        /\ \E i \in 1..NumChunks :
              /\ DOMAIN heap[resultado[r]] = DOMAIN heap[i] \cup {"similaridade"}
              /\ \A k \in DOMAIN heap[i] : heap[resultado[r]][k] = heap[i][k]
              /\ SimEQ(SimOfResult(r), SimOfInput(i))

\* C3: with N >= 1 chunks and N embeddings the call returns max(1, floor(N*f))
\* chunks, their 'indice' values strictly ascending
C3_CountAndOrder ==
    (SelReturned /\ Aligned) =>
        /\ LET k == (NumChunks * percentual_selecao) \div 10
           IN Len(resultado) = IF k >= 1 THEN k ELSE 1
        /\ \A r \in 1..(Len(resultado) - 1) : IndexOfResult(r) < IndexOfResult(r + 1)

\* a call that returned two chunks of four, the better-ranked of them the
\* later one in the document
C3_Witness ==
    /\ SelReturned /\ Aligned /\ Len(resultado) = 2 /\ NumChunks = 4
    /\ SimLT(SimOfResult(1), SimOfResult(2))

\* C4: no chunk left out is strictly more similar than a returned one, and
\* the similarities 0.9, 0.2, 0.7, 0.5, 0.95 with fraction 0.4 return the
\* chunks 0 and 4 in that order
C4_TopRanked ==
    (SelReturned /\ Aligned) =>
        /\ \A i \in 1..NumChunks : IsLeftOut(i) =>
              \A r \in 1..Len(resultado) : ~SimLT(SimOfResult(r), SimOfInput(i))
        /\ (/\ embeddings_chunks = <<E1, E2, E3, E4, E5>>
            /\ embedding_global = E0 /\ percentual_selecao = 4)
           => /\ ResultIndices = <<0, 4>>
              /\ SimEQ(SimOfResult(1), [num |-> 9, den2 |-> 100])
              /\ SimEQ(SimOfResult(2), [num |-> 19, den2 |-> 400])

\* the scenario of five chunks has returned
C4_Witness ==
    /\ SelReturned /\ embeddings_chunks = <<E1, E2, E3, E4, E5>>
    /\ embedding_global = E0 /\ percentual_selecao = 4
    /\ Len(resultado) = 2

\* C5: of the chunks with one similarity, those earlier in the list are
\* selected first; with all similarities equal the first ones are returned
C5_TiesByPosition ==
    (SelReturned /\ Aligned) =>
        /\ \A i \in 1..NumChunks : IsLeftOut(i) =>
              \A r \in 1..Len(resultado) :
                  SimEQ(SimOfResult(r), SimOfInput(i)) => IndexOfResult(r) < i - 1
        /\ (\A i \in 1..NumChunks : SimEQ(SimOfInput(i), SimOfInput(1)))
           => ResultIndices = [r \in 1..Len(resultado) |-> r - 1]

\* a call that cut between two chunks of one similarity, built from
\* different embeddings
C5_Witness ==
    /\ SelReturned /\ Aligned
    /\ \E r \in 1..Len(resultado) : \E i \in 1..NumChunks :
          /\ IsLeftOut(i)
          /\ SimEQ(SimOfResult(r), SimOfInput(i))
          /\ embeddings_chunks[i] # embeddings_chunks[IndexOfResult(r) + 1]

\* C6 as stated: after every call the input is as it was and every returned
\* chunk is a distinct copy with 'similaridade' added
C6_Original ==
    SelReturned => (InputUntouched /\ ReturnedAreCopies)

\* C6, amended: after every call the input is as it was; when neither list
\* is empty every returned chunk is a distinct copy with 'similaridade' added
C6_NoMutation ==
    SelReturned =>
        /\ InputUntouched
        /\ \A i \in 1..NumChunks : "similaridade" \notin DOMAIN heap[i]
        /\ ~IsDegenerate(chunks_in, embeddings_chunks) => ReturnedAreCopies

\* a call on four chunks that returned two copies
C6_Witness ==
    /\ SelReturned /\ Aligned /\ NumChunks = 4 /\ Len(resultado) = 2
    /\ "similaridade" \in DOMAIN heap[resultado[1]]

\* C7: with no chunks or no embeddings the call returns the list it was
\* given and touches no chunk
C7_DegenerateUnchanged ==
    (SelReturned /\ (chunks_in = <<>> \/ embeddings_chunks = <<>>)) =>
        /\ resultado = chunks_in
        /\ heap = InputChunks(NumChunks)

\* a call with chunks and no embeddings has returned
C7_Witness ==
    SelReturned /\ NumChunks >= 2 /\ embeddings_chunks = <<>>

----------------------------------------------------------------------------
(* main and processar_texto, one stage per step *)

\* the fewest characters main accepts
MinChars == 50

\* percentual_selecao of the run, in tenths
PercentualDoApp == 7

TamanhosEntrada == {0, MinChars - 1, MinChars, MinChars + 1}

\* the embeddings the service may answer with, for the whole text and for
\* a chunk
ProcGlobalPool == {E0, EDiff}
ProcPool == {E1, E2}

EmbeddingErrorRaises == [raised |-> TRUE, valor |-> <<>>]

\* except Exception in gerar_embedding: the zero vector is returned
EmbeddingError == [raised |-> FALSE, valor |-> EZero]

\* gerar_embedding: disp is OPENAI_DISPONIVEL, api_ok tells whether the
\* client and the request succeed, vazio whether the text strips to nothing,
\* v is the vector the service answers with (or the random one when the
\* package is missing)
gerar_embedding(disp, api_ok, vazio, v) ==
    IF ~disp THEN [raised |-> FALSE, valor |-> v]
    ELSE IF ~api_ok THEN EmbeddingError
    ELSE IF vazio THEN [raised |-> FALSE, valor |-> EZero]
    ELSE [raised |-> FALSE, valor |-> v]

\* except Exception in gerar_embeddings_batch: one zero vector per text
BatchError(n) == [raised |-> FALSE, valor |-> [i \in 1..n |-> EZero]]

\* gerar_embeddings_para_chunks of n chunks, vs the vectors of the answer
gerar_embeddings_para_chunks(disp, api_ok, n, vs) ==
    IF n = 0 THEN [raised |-> FALSE, valor |-> <<>>]
    ELSE IF ~disp THEN [raised |-> FALSE, valor |-> vs]
    ELSE IF api_ok THEN [raised |-> FALSE, valor |-> vs]
    ELSE BatchError(n)

\* gerar_texto_o4_mini: the dictionary it returns
gerar_texto_o4_mini(disp, api_ok) ==
    IF ~disp
    THEN [texto_gerado |-> "[MODO DE TESTE]", sucesso |-> FALSE,
          erro |-> "Biblioteca openai nao disponivel"]
    ELSE IF api_ok
    THEN [texto_gerado |-> "texto do modelo", sucesso |-> TRUE, erro |-> "None"]
    ELSE [texto_gerado |-> "", sucesso |-> FALSE,
          erro |-> "Erro ao gerar texto com o4-mini"]

ExcecaoSilenciosa ==
    /\ resultado_proc' = resultado_proc
    /\ pcP' = "fim"

\* except Exception in processar_texto
Excecao ==
    /\ resultado_proc' = [resultado_proc EXCEPT !.erro = "Erro durante processamento"]
    /\ pcP' = "fim"

InitProc ==
    /\ pcP = "main"
    /\ tamanho_entrada \in TamanhosEntrada
    /\ OPENAI_DISPONIVEL \in BOOLEAN
    /\ resultado_proc = ResultadoInicial
    /\ eventos = <<>> /\ falhas = {} /\ prompt = SemPrompt
    /\ heap = <<>> /\ chunks_in = <<>> /\ embeddings_chunks = <<>>
    /\ embedding_global = <<>> /\ percentual_selecao = PercentualDoApp
    /\ resultado = <<>> /\ pcS = "idle"
    /\ NormIdle /\ ChunkIdle /\ SpacyIdle /\ TruncIdle /\ CosIdle /\ FrasesIdle

EntradaValidaNaoVazia(n) == n > 0

\* not (not texto_entrada or len(texto_entrada.strip()) < 50), n the length
\* of the stripped input
EntradaValida(n) == n >= MinChars

\* main: a text of fewer than 50 characters is refused.  (The sidebar of
\* main probes the service with the literal "teste" on every run; that call
\* does not read the document and is not a stage of the run.)
MainRejeita ==
    /\ pcP = "main" /\ ~EntradaValida(tamanho_entrada)
    /\ pcP' = "rejeitado"
    /\ UNCHANGED <<tamanho_entrada, OPENAI_DISPONIVEL, prompt, resultado_proc,
                   eventos, falhas, selVars, notProc>>

MainProcessa ==
    /\ pcP = "main" /\ EntradaValida(tamanho_entrada)
    /\ resultado_proc' = ResultadoInicial
    /\ pcP' = "pre"
    /\ UNCHANGED <<tamanho_entrada, OPENAI_DISPONIVEL, prompt, eventos, falhas,
                   selVars, notProc>>

\* the lengths of the chunk texts of a run: a chunk is longer than the
\* target size of 500 when one segment is
ProcTamanhos == {400, 12600, 24600, 30000}

\* the chunks of a run: texto stands for a text of tamanho characters
\* ('tamanho': len(chunk_atual.strip()))
ProcChunks(tams) ==
    [i \in 1..Len(tams) |-> [InputChunks(Len(tams))[i] EXCEPT !.tamanho = tams[i]]]

\* processar_texto_completo returns n chunks, none when the text is made of
\* control characters only
Preprocessar ==
    /\ pcP = "pre"
    /\ \E n \in 0..MaxProcChunks :
        \E tams \in [1..n -> ProcTamanhos] :
          /\ heap' = ProcChunks(tams)
          /\ chunks_in' = [i \in 1..n |-> i]
          /\ resultado_proc' = [resultado_proc EXCEPT
                                   !.estatisticas_entrada = "calculadas",
                                   !.chunks = [i \in 1..n |-> i]]
    /\ eventos' = eventos \o <<"limpar_texto", "calcular_estatisticas", "criar_chunks">>
    /\ pcP' = "emb_global"
    /\ UNCHANGED <<tamanho_entrada, OPENAI_DISPONIVEL, prompt, falhas,
                   embeddings_chunks, embedding_global, percentual_selecao,
                   resultado, pcS, notProc>>

\* processar_texto_completo raises (the spaCy pipeline refuses the text)
PreprocessarFalha ==
    /\ pcP = "pre"
    /\ eventos' = Append(eventos, "limpar_texto")
    /\ Excecao
    /\ UNCHANGED <<tamanho_entrada, OPENAI_DISPONIVEL, prompt, falhas, selVars,
                   notProc>>

EmbeddingGlobal ==
    /\ pcP = "emb_global"
    /\ \E api_ok \in (IF OPENAI_DISPONIVEL THEN BOOLEAN ELSE {TRUE}),
          v \in ProcGlobalPool :
          LET r == gerar_embedding(OPENAI_DISPONIVEL, api_ok, chunks_in = <<>>, v)
          IN /\ falhas' = IF api_ok THEN falhas ELSE falhas \cup {"emb_global"}
             /\ IF r.raised
                THEN Excecao /\ UNCHANGED embedding_global
                ELSE /\ embedding_global' = r.valor
                     /\ pcP' = "emb_chunks"
                     /\ UNCHANGED resultado_proc
    /\ eventos' = Append(eventos, "gerar_embedding")
    /\ UNCHANGED <<tamanho_entrada, OPENAI_DISPONIVEL, prompt, heap, chunks_in,
                   embeddings_chunks, percentual_selecao, resultado, pcS, notProc>>

EmbeddingsChunks ==
    /\ pcP = "emb_chunks"
    /\ \E api_ok \in (IF OPENAI_DISPONIVEL THEN BOOLEAN ELSE {TRUE}),
          vs \in [1..Len(chunks_in) -> ProcPool] :
          LET r == gerar_embeddings_para_chunks(OPENAI_DISPONIVEL, api_ok,
                                                Len(chunks_in), vs)
          IN /\ falhas' = IF api_ok \/ chunks_in = <<>> THEN falhas
                          ELSE falhas \cup {"emb_chunks"}
             /\ IF r.raised
                THEN Excecao /\ UNCHANGED embeddings_chunks
                ELSE /\ embeddings_chunks' = r.valor
                     /\ resultado_proc' = [resultado_proc EXCEPT
                                              !.embeddings_info = "preenchido"]
                     /\ pcP' = "selecao"
    /\ eventos' = Append(eventos, "gerar_embeddings_para_chunks")
    /\ UNCHANGED <<tamanho_entrada, OPENAI_DISPONIVEL, prompt, heap, chunks_in,
                   embedding_global, percentual_selecao, resultado, pcS, notProc>>

Selecao ==
    /\ pcP = "selecao"
    /\ \E r \in {selecionar_chunks_relevantes(heap, chunks_in, embeddings_chunks,
                                              embedding_global, PercentualDoApp)} :
          /\ heap' = r.heap
          /\ resultado' = r.resultado
          /\ resultado_proc' = [resultado_proc EXCEPT
                                   !.chunks_selecionados = r.resultado]
    /\ eventos' = Append(eventos, "selecionar_chunks_relevantes")
    /\ pcP' = "geracao"
    /\ UNCHANGED <<tamanho_entrada, OPENAI_DISPONIVEL, prompt, falhas, chunks_in,
                   embeddings_chunks, embedding_global, percentual_selecao, pcS,
                   notProc>>

RegistrarRespostaCopiaTexto(res, resposta_llm) ==
    IF resposta_llm.sucesso
    THEN [res EXCEPT !.texto_gerado = resposta_llm.texto_gerado,
                     !.sucesso = TRUE,
                     !.estatisticas_saida = "calculadas"]
    ELSE [res EXCEPT !.texto_gerado = resposta_llm.texto_gerado,
                     !.erro = resposta_llm.erro]

\* if resposta_llm['sucesso']: ... else: resultado['erro'] = ...
RegistrarResposta(res, resposta_llm) ==
    IF resposta_llm.sucesso
    THEN [res EXCEPT !.texto_gerado = resposta_llm.texto_gerado,
                     !.sucesso = TRUE,
                     !.estatisticas_saida = "calculadas"]
    ELSE [res EXCEPT !.erro = resposta_llm.erro]

\* the budget of the chunk texts of a prompt, the least remainder worth a
\* cut chunk, and the characters counted for a separator
max_chars_chunks == 25000
MinCharsRestantes == 500
CharsSeparador == 10

texto_chunks_parts_sem_limite(h, sel) ==
    [i \in 1..Len(sel) |->
        [chunk |-> sel[i], chars |-> h[sel[i]].tamanho, cortado |-> FALSE]]

\* the loop of construir_prompt_resumo and construir_prompt_simplificacao:
\* the parts of texto_chunks, each the chunk it comes from, the characters
\* of the chunk text it holds and whether "..." was put after a cut
texto_chunks_parts(h, sel) ==
    LET RECURSIVE Go(_, _, _)
        Go(i, parts, total_chars) ==
            IF i > Len(sel) THEN parts
            ELSE IF total_chars + h[sel[i]].tamanho > max_chars_chunks
            THEN IF max_chars_chunks - total_chars > MinCharsRestantes
                 THEN Append(parts, [chunk |-> sel[i],
                                     chars |-> max_chars_chunks - total_chars,
                                     cortado |-> TRUE])
                 ELSE parts
            ELSE Go(i + 1,
                    Append(parts, [chunk |-> sel[i], chars |-> h[sel[i]].tamanho,
                                   cortado |-> FALSE]),
                    total_chars + h[sel[i]].tamanho + CharsSeparador)
    IN Go(1, <<>>, 0)

\* gerar_texto_o4_mini is given resultado, the list the selection returned;
\* cliente_ok tells whether inicializar_cliente succeeds (the prompt is built
\* after it), api_ok whether the whole call does
Geracao ==
    /\ pcP = "geracao"
    /\ \E api_ok \in (IF OPENAI_DISPONIVEL THEN BOOLEAN ELSE {TRUE}),
          cliente_ok \in BOOLEAN :
          LET resposta_llm == gerar_texto_o4_mini(OPENAI_DISPONIVEL, api_ok)
          IN /\ api_ok => cliente_ok
             /\ prompt' = IF OPENAI_DISPONIVEL /\ cliente_ok
                          THEN [construido |-> TRUE,
                                partes |-> texto_chunks_parts(heap, resultado)]
                          ELSE SemPrompt
             /\ falhas' = IF OPENAI_DISPONIVEL /\ api_ok THEN falhas
                          ELSE falhas \cup {"geracao"}
             /\ resultado_proc' = RegistrarResposta(resultado_proc, resposta_llm)
             /\ eventos' = IF resposta_llm.sucesso
                           THEN eventos \o <<"gerar_texto_o4_mini",
                                              "calcular_estatisticas">>
                           ELSE Append(eventos, "gerar_texto_o4_mini")
    /\ pcP' = "fim"
    /\ UNCHANGED <<tamanho_entrada, OPENAI_DISPONIVEL, selVars, notProc>>

NextProc ==
    MainRejeita \/ MainProcessa \/ Preprocessar \/ PreprocessarFalha
    \/ EmbeddingGlobal \/ EmbeddingsChunks \/ Selecao \/ Geracao

SpecProc == InitProc /\ [][NextProc]_vars

Ocorreu(e) == \E i \in 1..Len(eventos) : eventos[i] = e
EmbeddingFalhou == falhas \cap {"emb_global", "emb_chunks"} # {}

C11_GenerationFailure ==
    pcP = "fim" =>
        /\ "geracao" \in falhas =>
              /\ resultado_proc.sucesso = FALSE
              /\ resultado_proc.erro \notin {"None", ""}
              /\ resultado_proc.texto_gerado = ""
              /\ resultado_proc.estatisticas_saida = "vazio"
        /\ resultado_proc.sucesso = TRUE =>
              /\ "geracao" \notin falhas
              /\ Ocorreu("gerar_texto_o4_mini")
              /\ resultado_proc.texto_gerado = "texto do modelo"

\* a run that reached the generation call without the openai package, whose
\* answer carries a placeholder text
C11_Witness ==
    /\ pcP = "fim" /\ ~OPENAI_DISPONIVEL /\ "geracao" \in falhas
    /\ Ocorreu("gerar_texto_o4_mini")
    /\ gerar_texto_o4_mini(OPENAI_DISPONIVEL, TRUE).texto_gerado # ""
    /\ resultado_proc.erro = "Biblioteca openai nao disponivel"

\* C12: for an input of fewer than 50 characters after trimming no stage
\* runs: no normalization, chunking, embedding, selection or generation,
\* and processar_texto is not entered
C12_ShortInputRejected ==
    tamanho_entrada < MinChars =>
        /\ pcP \in {"main", "rejeitado"}
        /\ eventos = <<>> /\ falhas = {}
        /\ heap = <<>> /\ chunks_in = <<>> /\ embeddings_chunks = <<>>
        /\ embedding_global = <<>> /\ resultado = <<>>
        /\ resultado_proc = ResultadoInicial

\* an input one character short of the minimum, refused by main
C12_Witness ==
    pcP = "rejeitado" /\ tamanho_entrada = MinChars - 1 /\ eventos = <<>>

\* the stages of processar_texto in the order of the code
Etapas ==
    <<"limpar_texto", "calcular_estatisticas", "criar_chunks", "gerar_embedding",
      "gerar_embeddings_para_chunks", "selecionar_chunks_relevantes",
      "gerar_texto_o4_mini", "calcular_estatisticas">>

IsPrefix(s, t) == Len(s) <= Len(t) /\ \A i \in 1..Len(s) : s[i] = t[i]

EstatisticasSaidaCalculadas == Len(eventos) = Len(Etapas)

\* the stages run in order, generation after the selection whose list it is
\* given, output statistics only after a successful generation
OrdemDasEtapas ==
    /\ IsPrefix(eventos, Etapas)
    /\ Ocorreu("gerar_texto_o4_mini") =>
          /\ Ocorreu("selecionar_chunks_relevantes")
          /\ resultado_proc.chunks_selecionados = resultado
    /\ prompt.construido => Ocorreu("gerar_texto_o4_mini")
    /\ EstatisticasSaidaCalculadas => resultado_proc.sucesso = TRUE

SumChars(partes) ==
    LET RECURSIVE S(_)
        S(i) == IF i = 0 THEN 0 ELSE partes[i].chars + S(i - 1)
    IN S(Len(partes))

\* C21 as stated: the stages run in order and the prompt of the generation
\* holds exactly the selected chunks, each one whole
C21_Original ==
    /\ OrdemDasEtapas
    /\ prompt.construido =>
          /\ Len(prompt.partes) = Len(resultado)
          /\ \A i \in 1..Len(resultado) :
                /\ prompt.partes[i].chunk = resultado[i]
                /\ prompt.partes[i].chars = heap[resultado[i]].tamanho
                /\ ~prompt.partes[i].cortado

\* C21, amended: the stages run in order; the prompt of the generation holds
\* a leading part of the selected chunks, in the order of the selection, of
\* at most 25000 characters of chunk text: whole chunks, then at most one
\* chunk cut to the budget that is left when more than 500 characters of it
\* are left, and no selected chunk is left out while it fits whole
C21_StageOrder ==
    /\ OrdemDasEtapas
    /\ prompt.construido =>
          LET partes == prompt.partes
              n == Len(partes)
          IN /\ n <= Len(resultado)
             /\ SumChars(partes) <= max_chars_chunks
             /\ \A i \in 1..n :
                   /\ partes[i].chunk = resultado[i]
                   /\ partes[i].cortado => i = n
                   /\ IF partes[i].cortado
                      THEN /\ partes[i].chars < heap[resultado[i]].tamanho
                           /\ partes[i].chars > MinCharsRestantes
                      ELSE partes[i].chars = heap[resultado[i]].tamanho
             /\ (n < Len(resultado) /\ (n = 0 \/ ~partes[n].cortado)) =>
                   SumChars(partes) + n * CharsSeparador
                       + heap[resultado[n + 1]].tamanho > max_chars_chunks

\* a successful run whose selection has two chunks and whose prompt holds
\* the first only, the budget left being too small for a cut
C21_Witness ==
    /\ pcP = "fim" /\ resultado_proc.sucesso = TRUE
    /\ EstatisticasSaidaCalculadas
    /\ prompt.construido /\ Len(resultado) = 2 /\ Len(prompt.partes) = 1

\* C26: the dictionary processar_texto returns has sucesso = True exactly
\* when erro is None; with sucesso = True, texto_gerado is the text of the
\* generation call and estatisticas_saida is filled; with sucesso = False,
\* texto_gerado is empty and estatisticas_saida is the empty dictionary;
\* also when a stage raised
C26_ResultShape ==
    pcP = "fim" =>
        /\ resultado_proc.sucesso = (resultado_proc.erro = "None")
        /\ resultado_proc.sucesso = TRUE =>
              /\ resultado_proc.texto_gerado
                    = gerar_texto_o4_mini(TRUE, TRUE).texto_gerado
              /\ resultado_proc.estatisticas_saida = "calculadas"
              /\ EstatisticasSaidaCalculadas
        /\ resultado_proc.sucesso = FALSE =>
              /\ resultado_proc.texto_gerado = ""
              /\ resultado_proc.estatisticas_saida = "vazio"
              /\ ~EstatisticasSaidaCalculadas

\* a run ended by the except clause of processar_texto, before any chunk
\* was built
C26_Witness ==
    /\ pcP = "fim" /\ resultado_proc.erro = "Erro durante processamento"
    /\ ~Ocorreu("gerar_texto_o4_mini")

----------------------------------------------------------------------------
(* truncar_texto_para_embedding *)

\* characters counted for one token
CharsPerToken == 4

\* str.rfind(' '): the index, from 0, of the last space of s, -1 if none
rfind_espaco(s) ==
    LET P == {i \in 1..Len(s) : s[i] = "SP"}
    IN IF P = {} THEN 0 - 1 ELSE (CHOOSE i \in P : \A j \in P : j <= i) - 1

truncar_texto_para_embedding(t, mt) ==
    LET max_chars == mt * CharsPerToken
        corte == SubSeq(t, 1, max_chars)
        ultimo_espaco == rfind_espaco(corte)
    IN IF Len(t) <= max_chars THEN t
       ELSE IF ultimo_espaco > 0 THEN SubSeq(corte, 1, ultimo_espaco)
       ELSE corte

\* the texts of the model: words of the letter a, spaces and newlines
TruncChars == {"a", "SP", "LF"}

InitTrunc ==
    /\ texto_emb \in SeqsUpTo(TruncChars, MaxTruncLen)
    /\ max_tokens \in 1..MaxTokens
    /\ texto_truncado = <<>>
    /\ pcT = "call"
    /\ NormIdle /\ ChunkIdle /\ SelIdle /\ SpacyIdle /\ ProcIdle /\ CosIdle /\ FrasesIdle

Truncar ==
    /\ pcT = "call"
    /\ texto_truncado' = truncar_texto_para_embedding(texto_emb, max_tokens)
    /\ pcT' = "returned"
    /\ UNCHANGED <<texto_emb, max_tokens, notTrunc>>

NextTrunc == Truncar

SpecTrunc == InitTrunc /\ [][NextTrunc]_vars

\* C18: a text longer than max_tokens * 4 characters is cut at whitespace:
\* the result is a prefix of the text of at most max_tokens * 4 characters
\* and the character of the text right after it is whitespace
C18_CutAtWhitespace ==
    (pcT = "returned" /\ Len(texto_emb) > max_tokens * CharsPerToken) =>
        /\ Len(texto_truncado) <= max_tokens * CharsPerToken
        /\ texto_truncado = SubSeq(texto_emb, 1, Len(texto_truncado))
        /\ IsSpace(texto_emb[Len(texto_truncado) + 1])

----------------------------------------------------------------------------
(* calcular_similaridade_coseno, called on its own *)

\* the components of the vectors of the model
Components == {0 - 1, 0, 1, 2}

InitCos ==
    /\ \E d \in 1..MaxDim :
          /\ embedding1 \in [1..d -> Components]
          /\ embedding2 \in [1..d -> Components]
    /\ similaridade = [num |-> 0, den2 |-> 1]
    /\ pcK = "call"
    /\ NormIdle /\ ChunkIdle /\ SelIdle /\ SpacyIdle /\ ProcIdle /\ TruncIdle /\ FrasesIdle

CalcularSimilaridade ==
    /\ pcK = "call"
    /\ similaridade' = calcular_similaridade_coseno(embedding1, embedding2)
    /\ pcK' = "returned"
    /\ UNCHANGED <<embedding1, embedding2, notCos>>

NextCos == CalcularSimilaridade

SpecCos == InitCos /\ [][NextCos]_vars

IsZeroVector(v) == \A i \in 1..Len(v) : v[i] = 0

\* C19: when one of the two vectors, or both, has only zero components the
\* call returns 0.0 and divides by nothing
C19_ZeroNorm ==
    (pcK = "returned" /\ (IsZeroVector(embedding1) \/ IsZeroVector(embedding2)))
        => similaridade.num = 0 /\ similaridade.den2 > 0

\* the call has returned for a zero vector and a vector that is not zero
C19_Witness ==
    /\ pcK = "returned" /\ Len(embedding1) = 2
    /\ IsZeroVector(embedding1) /\ ~IsZeroVector(embedding2)
    /\ similaridade = [num |-> 0, den2 |-> 1]

----------------------------------------------------------------------------
(* segmentar_em_frases and segmentar_em_frases_spacy *)

\* "." stands for the class [.!?], "A" for the upper-case letters of the
\* pattern, "a" for any other character that is not whitespace
FraseChars == {"a", "A", ".", "SP", "LF"}

\* the pieces of re.split(r'(?<=[.!?])\s+(?=[A-Z...])', s): a whitespace run
\* is a separator when it starts right after "." and an upper-case letter
\* follows the whole run
RECURSIVE SplitFrases(_, _)
SplitFrases(s, acc) ==
    IF s = <<>> THEN <<acc>>
    ELSE IF /\ acc # <<>> /\ acc[Len(acc)] = "."
            /\ SpaceRun(s) > 0 /\ SpaceRun(s) < Len(s)
            /\ s[SpaceRun(s) + 1] = "A"
         THEN <<acc>> \o SplitFrases(SubSeq(s, SpaceRun(s) + 1, Len(s)), <<>>)
         ELSE SplitFrases(Tail(s), Append(acc, Head(s)))

segmentar_em_frases(s) ==
    LET fs == SplitFrases(s, <<>>)
        stripped == [i \in 1..Len(fs) |-> Strip(fs[i])]
    IN SelectSeq(stripped, LAMBDA f : f # <<>>)

FallbackParagrafos(s) == segmentar_em_paragrafos(s)

\* if nlp is None: return segmentar_em_frases(texto)
Fallback(s) == segmentar_em_frases(s)

\* what segmentar_em_frases_spacy may return once carregar_spacy has
\* returned nlp
segmentar_em_frases_spacy(s, nlp) ==
    IF nlp = "None" THEN {Fallback(s)}
    ELSE segmentar_em_frases_spacy_loaded(s)

InitFrases ==
    /\ texto_frases \in SeqsUpTo(FraseChars, MaxFraseLen)
    /\ frases = <<>>
    /\ pcF = "call"
    /\ SPACY_DISPONIVEL \in BOOLEAN
    /\ modelo_instalado \in BOOLEAN
    /\ nlp_spacy = "None" /\ load_attempts = 0 /\ ultima_funcao = "none"
    /\ chamadas = 0 /\ retorno = "None"
    /\ NormIdle /\ ChunkIdle /\ SelIdle /\ ProcIdle /\ TruncIdle /\ CosIdle

SegmentarFrases ==
    /\ pcF = "call"
    /\ \E g \in {carregar_spacy(Globais, SPACY_DISPONIVEL, modelo_instalado)} :
          /\ frases' \in segmentar_em_frases_spacy(texto_frases, g.retorno)
          /\ nlp_spacy' = g.nlp_spacy
          /\ load_attempts' = g.load_attempts
          /\ chamadas' = g.chamadas
          /\ retorno' = g.retorno
    /\ ultima_funcao' = "segmentar_em_frases_spacy"
    /\ pcF' = "returned"
    /\ UNCHANGED <<texto_frases, SPACY_DISPONIVEL, modelo_instalado, notFrases>>

NextFrases == SegmentarFrases

SpecFrases == InitFrases /\ [][NextFrases]_vars

====
